---- MODULE Spec2Model ----
(***************************************************************************)
(* Model of import_to_supabase.py: a CSV of trades is scanned twice.       *)
(* Pass 1 resolves one stock per (ticker, exchange) key against the remote *)
(* `stocks` table (select, then insert when absent); pass 2 inserts one    *)
(* record into `trades` per row that passes the required-field test.       *)
(*                                                                         *)
(* Values.  A CSV cell is an optional value: None (pandas NaN/None) or     *)
(* Some(v).  Ticker and Type texts are sequences of one-character strings, *)
(* so that split('.') and upper() are computed and not assumed.  A Date    *)
(* text "a/b/y" is the triple <<a, b, y>>; the ISO text "y-m-d" is the     *)
(* triple <<y, m, d>>.  Holding and currency texts are opaque strings.     *)
(***************************************************************************)
EXTENDS Integers, Sequences, FiniteSets, TLC

VARIABLES df, pc, i, stocks, remoteStocks, remoteTrades, calls, printed, run, pre,
          arg, ret

vars == <<df, pc, i, stocks, remoteStocks, remoteTrades, calls, printed, run, pre,
          arg, ret>>

(* ---------------------------------------------------------------- bounds *)
MaxRows == 2
MaxLen == 4

(* ------------------------------------------------------- optional values *)
None == <<>>
Some(v) == <<v>>
Val(o) == o[1]

\* nan_to_none: the DataFrame cell is NaN/None or a value; both become None.
nan_to_none(x) == IF x = None THEN None ELSE x

\* Python truthiness of an optional text made of characters: None and '' are falsy.
TruthyText(o) == o # None /\ Len(Val(o)) > 0
\* Python truthiness of an optional opaque string.
TruthyStr(o) == o # None /\ Val(o) # ""
\* Python truthiness of an optional number: None and 0 are falsy.
TruthyNum(o) == o # None /\ Val(o) # 0
\* Python truthiness of an optional date text (a non-empty string is truthy).
TruthyDate(o) == o # None

(* ------------------------------------------------------- str.split('.') *)
Range(s) == {s[k] : k \in 1..Len(s)}

HasDot(s) == "." \in Range(s)

FirstDot(s) == CHOOSE k \in 1..Len(s) : s[k] = "." /\ \A j \in 1..(k-1) : s[j] # "."

RECURSIVE PySplit(_)
\* s.split('.'): every '.' separates two parts
PySplit(s) ==
    IF ~HasDot(s) THEN <<s>>
    ELSE <<SubSeq(s, 1, FirstDot(s) - 1)>> \o PySplit(SubSeq(s, FirstDot(s) + 1, Len(s)))

\* Returns <<ticker, exchange>>: ticker is optional (None passes through), exchange a text.
split_ticker_exchange(ticker_str) ==
    IF TruthyText(ticker_str) /\ HasDot(Val(ticker_str))
    THEN <<Some(PySplit(Val(ticker_str))[1]), PySplit(Val(ticker_str))[2]>>
    ELSE <<ticker_str, <<>> >>

(* ---------------------------------------------------- str.upper / dates *)
UpperOf == ("b" :> "B") @@ ("u" :> "U") @@ ("y" :> "Y")

\* str.upper(): letters with an uppercase form are replaced, the rest kept.
Upper(s) == [k \in 1..Len(s) |-> IF s[k] \in DOMAIN UpperOf THEN UpperOf[s[k]] ELSE s[k]]

\* pd.to_datetime(text, dayfirst=True) raises on a text that names no calendar day.
DateParses(d) == d[2] \in 1..12 /\ d[1] \in 1..31

\* pd.to_datetime(text, dayfirst=True): "a/b/y" is day a of month b of year y.
to_datetime(d) == [year |-> d[3], month |-> d[2], day |-> d[1]]

\* strftime('%Y-%m-%d')
strftime(t) == <<t.year, t.month, t.day>>

(* ------------------------------------------------------------ the input *)
Row(t, h, c, ty, d, q) ==
    [Ticker |-> t, Holding |-> h, HoldingCurrency |-> c, Type |-> ty, Date |-> d, Quantity |-> q]

Tickers == {None, Some(<<"A", ".", "L">>), Some(<<"B">>)}
Holdings == {None, Some("Gazprom"), Some("Gazprom PJSC")}
Currencies == {None, Some("USD")}

\* <<Type, Date, Quantity>> of a row: complete, zero quantity, each field missing, bad date
TradeParts ==
    { <<Some(<<"b", "u", "y">>), Some(<<5, 3, 2020>>), Some(10)>>,
      <<Some(<<"b", "u", "y">>), Some(<<5, 3, 2020>>), Some(0)>>,
      <<Some(<<"b", "u", "y">>), Some(<<5, 3, 2020>>), None>>,
      <<None, Some(<<5, 3, 2020>>), Some(10)>>,
      <<Some(<<"b", "u", "y">>), None, Some(10)>>,
      <<Some(<<"b", "u", "y">>), Some(<<45, 3, 2020>>), Some(10)>> }

\* Rows that vary the stock columns, rows that vary the trade columns, and a row
\* whose ticker has two dots.
RowSet ==
    { Row(t, h, c, Some(<<"b", "u", "y">>), Some(<<5, 3, 2020>>), Some(10)) :
        t \in Tickers, h \in Holdings, c \in Currencies }
    \cup
    { Row(Some(<<"A", ".", "L">>), Some("Gazprom"), Some("USD"), p[1], p[2], p[3]) :
        p \in TradeParts }
    \cup
    { Row(Some(<<"A", ".", "L", ".", "B">>), Some("Gazprom PJSC"), None,
          Some(<<"b", "u", "y">>), Some(<<5, 3, 2020>>), Some(10)) }

RECURSIVE SeqsUpTo(_, _)
\* all sequences over S of length 0..n
SeqsUpTo(S, n) ==
    IF n = 0 THEN {<<>>}
    ELSE SeqsUpTo(S, n - 1) \cup
         {Append(s, x) : s \in {t \in SeqsUpTo(S, n - 1) : Len(t) = n - 1}, x \in S}

\* Records the `stocks` table may hold before the run (two of them share a key).
StockRec(id, ticker, exchange, name, currency) ==
    [id |-> id, ticker |-> ticker, exchange |-> exchange, name |-> name, currency |-> currency]

PreStocks == { StockRec(1, <<"A">>, <<"L">>, "Gazprom old", Some("GBP")),
               StockRec(2, <<"A">>, <<"L">>, "Gazprom old", Some("GBP")) }

(* ------------------------------------------------------ the remote store *)
\* .eq('ticker', ticker).eq('exchange', ticker): the exchange filter given the wrong value
MatchesWrongColumn(rec, ticker, exchange) == rec.ticker = ticker /\ rec.exchange = ticker

\* .eq('ticker', ticker).eq('exchange', exchange)
Matches(rec, ticker, exchange) == rec.ticker = ticker /\ rec.exchange = exchange

\* table('stocks').select('id')...execute().data
Select(table, ticker, exchange) == {rec \in table : Matches(rec, ticker, exchange)}

SetMax(S) == CHOOSE x \in S : \A y \in S : y <= x

\* the identifier the store assigns to an inserted record: the next of a sequence
\* that starts at 1
NewId(table) == SetMax({rec.id : rec \in table} \cup {0}) + 1

(* ----------------------------------------------------- pass 1 predicates *)
\* if not ticker or not name: continue
SkipStock(ticker, name) == ~TruthyText(ticker) \/ ~TruthyStr(name)

Key(ticker, exchange) == <<Val(ticker), exchange>>

\* the cache test dropped: every row queries the store
CacheMissAlways(key, m) == TRUE

\* if key not in stocks
CacheMiss(key, m) == key \notin DOMAIN m

\* the existence test dropped: every cache miss inserts
NeedInsertAlways(data) == TRUE

\* if not res.data
NeedInsert(data) == data = {}

\* 'currency' read from the Holding column
stock_data_wrong_currency(ticker, exchange, name, row) ==
    [ticker |-> Val(ticker), exchange |-> exchange, name |-> Val(name),
     currency |-> nan_to_none(row.Holding)]

stock_data(ticker, exchange, name, row) ==
    [ticker |-> Val(ticker), exchange |-> exchange, name |-> Val(name),
     currency |-> nan_to_none(row.HoldingCurrency)]

(* ----------------------------------------------------- pass 2 predicates *)
\* the name test left out of the required-field test
SkipTradeNoName(ticker, name, trade_type, trade_date, quantity) ==
    \/ ~TruthyText(ticker)
    \/ ~TruthyText(trade_type)
    \/ ~TruthyDate(trade_date)
    \/ ~TruthyNum(quantity)

\* if not ticker or not name or not trade_type or not trade_date or not quantity: continue
SkipTrade(ticker, name, trade_type, trade_date, quantity) ==
    \/ ~TruthyText(ticker)
    \/ ~TruthyStr(name)
    \/ ~TruthyText(trade_type)
    \/ ~TruthyDate(trade_date)
    \/ ~TruthyNum(quantity)

\* a lookup that ignores the key and reads some entry of the mapping
GetAny(m, key) == IF DOMAIN m # {} THEN Some(m[CHOOSE k \in DOMAIN m : TRUE]) ELSE None

\* stocks.get(key): None when the key is absent
Get(m, key) == IF key \in DOMAIN m THEN Some(m[key]) ELSE None

trade_data(stock_id, trade_type, trade_date, quantity, row) ==
    [stock_id |-> Val(stock_id),
     trade_type |-> Upper(Val(trade_type)),
     trade_date |-> strftime(to_datetime(Val(trade_date))),
     quantity |-> Val(quantity),
     price_currency |-> nan_to_none(row.HoldingCurrency),
     notes |-> ""]

(* -------------------------------------------------------------- failure *)
\* the exception caught and the loop left where it was
Swallow(p) == p

\* an exception nobody catches ends the process
Propagate(p) == "aborted"

\* one entry of the history of remote calls and date parses
Call(op, row, key, ok, found, data) ==
    [run |-> run, op |-> op, row |-> row, key |-> key, ok |-> ok, found |-> found, data |-> data]

\* stocks[key] = stock_id
Put(m, key, id) == [k \in DOMAIN m \cup {key} |-> IF k = key THEN id ELSE m[k]]

(* ------------------------------------------------------------ the state *)
\* df: the loaded CSV; pc: "pass1", "pass2", "done" or "aborted"; i: the row of the
\* running loop; stocks: the in-memory mapping; remoteStocks, remoteTrades: the two
\* tables; calls: history of remote calls and failed date parses; printed: the
\* completion message; run: which execution of the script; pre: `stocks` before the
\* first run; arg, ret: argument and result of a lone split_ticker_exchange call.
Init ==
    /\ df \in SeqsUpTo(RowSet, MaxRows)
    /\ pre \in SUBSET PreStocks
    /\ remoteStocks = pre
    /\ remoteTrades = <<>>
    /\ pc = "pass1"
    /\ i = 1
    /\ stocks = <<>>
    /\ calls = <<>>
    /\ printed = FALSE
    /\ run = "first"
    /\ arg = None
    /\ ret = <<>>

InPass1 == pc = "pass1" /\ i <= Len(df)
InPass2 == pc = "pass2" /\ i <= Len(df)

Ticker1 == split_ticker_exchange(df[i].Ticker)[1]
Exchange1 == split_ticker_exchange(df[i].Ticker)[2]
Name1 == nan_to_none(df[i].Holding)
Key1 == Key(Ticker1, Exchange1)
TradeType1 == nan_to_none(df[i].Type)
TradeDate1 == nan_to_none(df[i].Date)
Quantity1 == nan_to_none(df[i].Quantity)
StockId1 == Get(stocks, Key1)

\* lines 33-38: a row without ticker or name is passed over
StockSkip ==
    /\ InPass1
    /\ SkipStock(Ticker1, Name1)
    /\ i' = i + 1
    /\ UNCHANGED <<df, pc, stocks, remoteStocks, remoteTrades, calls, printed, run, pre, arg, ret>>

\* lines 39-40: the key is in the mapping already
StockCacheHit ==
    /\ InPass1
    /\ ~SkipStock(Ticker1, Name1)
    /\ ~CacheMiss(Key1, stocks)
    /\ i' = i + 1
    /\ UNCHANGED <<df, pc, stocks, remoteStocks, remoteTrades, calls, printed, run, pre, arg, ret>>

\* line 49 raises
StockSelectFail ==
    /\ InPass1
    /\ ~SkipStock(Ticker1, Name1)
    /\ CacheMiss(Key1, stocks)
    /\ calls' = Append(calls, Call("select", i, Key1, FALSE, FALSE, None))
    /\ pc' = Propagate(pc)
    /\ UNCHANGED <<df, i, stocks, remoteStocks, remoteTrades, printed, run, pre, arg, ret>>

\* lines 49-50, 53-55: the store has the key; the first returned record is adopted
StockAdopt ==
    /\ InPass1
    /\ ~SkipStock(Ticker1, Name1)
    /\ CacheMiss(Key1, stocks)
    /\ ~NeedInsert(Select(remoteStocks, Val(Ticker1), Exchange1))
    /\ \E rec \in Select(remoteStocks, Val(Ticker1), Exchange1) :
          stocks' = Put(stocks, Key1, rec.id)
    /\ calls' = Append(calls, Call("select", i, Key1, TRUE, TRUE, None))
    /\ i' = i + 1
    /\ UNCHANGED <<df, pc, remoteStocks, remoteTrades, printed, run, pre, arg, ret>>

\* lines 49-52, 55: the store has no such key; a record is inserted
StockInsert ==
    /\ InPass1
    /\ ~SkipStock(Ticker1, Name1)
    /\ CacheMiss(Key1, stocks)
    /\ NeedInsert(Select(remoteStocks, Val(Ticker1), Exchange1))
    /\ LET data == stock_data(Ticker1, Exchange1, Name1, df[i])
           id == NewId(remoteStocks)
       IN /\ remoteStocks' = remoteStocks \cup
                {StockRec(id, data.ticker, data.exchange, data.name, data.currency)}
          /\ stocks' = Put(stocks, Key1, id)
          /\ calls' = calls \o
                << Call("select", i, Key1, TRUE,
                        Select(remoteStocks, Val(Ticker1), Exchange1) # {}, None),
                   Call("insert_stock", i, Key1, TRUE, FALSE, data) >>
    /\ i' = i + 1
    /\ UNCHANGED <<df, pc, remoteTrades, printed, run, pre, arg, ret>>

\* line 51 raises
StockInsertFail ==
    /\ InPass1
    /\ ~SkipStock(Ticker1, Name1)
    /\ CacheMiss(Key1, stocks)
    /\ NeedInsert(Select(remoteStocks, Val(Ticker1), Exchange1))
    /\ calls' = calls \o
          << Call("select", i, Key1, TRUE,
                  Select(remoteStocks, Val(Ticker1), Exchange1) # {}, None),
             Call("insert_stock", i, Key1, FALSE, FALSE,
                  stock_data(Ticker1, Exchange1, Name1, df[i])) >>
    /\ pc' = Propagate(pc)
    /\ UNCHANGED <<df, i, stocks, remoteStocks, remoteTrades, printed, run, pre, arg, ret>>

\* the first loop is exhausted; line 58 starts the second
EndPass1 ==
    /\ pc = "pass1"
    /\ i > Len(df)
    /\ pc' = "pass2"
    /\ i' = 1
    /\ UNCHANGED <<df, stocks, remoteStocks, remoteTrades, calls, printed, run, pre, arg, ret>>

\* lines 58-70: a required field is falsy, or the mapping gives nothing truthy for
\* the key; either way the row is passed over
TradeSkip ==
    /\ InPass2
    /\ IF SkipTrade(Ticker1, Name1, TradeType1, TradeDate1, Quantity1)
       THEN TRUE
       ELSE ~TruthyNum(StockId1)
    /\ i' = i + 1
    /\ UNCHANGED <<df, pc, stocks, remoteStocks, remoteTrades, calls, printed, run, pre, arg, ret>>

\* line 74 raises while trade_data is built
TradeDateFail ==
    /\ InPass2
    /\ ~SkipTrade(Ticker1, Name1, TradeType1, TradeDate1, Quantity1)
    /\ TruthyNum(StockId1)
    /\ ~DateParses(Val(TradeDate1))
    /\ calls' = Append(calls, Call("to_datetime", i, Key1, FALSE, FALSE, None))
    /\ pc' = Propagate(pc)
    /\ UNCHANGED <<df, i, stocks, remoteStocks, remoteTrades, printed, run, pre, arg, ret>>

\* lines 71-86: the trade is inserted
TradeInsert ==
    /\ InPass2
    /\ ~SkipTrade(Ticker1, Name1, TradeType1, TradeDate1, Quantity1)
    /\ TruthyNum(StockId1)
    /\ DateParses(Val(TradeDate1))
    /\ LET data == trade_data(StockId1, TradeType1, TradeDate1, Quantity1, df[i])
       IN /\ remoteTrades' = Append(remoteTrades, data)
          /\ calls' = Append(calls, Call("insert_trade", i, Key1, TRUE, FALSE, data))
    /\ i' = i + 1
    /\ UNCHANGED <<df, pc, stocks, remoteStocks, printed, run, pre, arg, ret>>

\* line 86 raises
TradeInsertFail ==
    /\ InPass2
    /\ ~SkipTrade(Ticker1, Name1, TradeType1, TradeDate1, Quantity1)
    /\ TruthyNum(StockId1)
    /\ DateParses(Val(TradeDate1))
    /\ calls' = Append(calls, Call("insert_trade", i, Key1, FALSE, FALSE,
                     trade_data(StockId1, TradeType1, TradeDate1, Quantity1, df[i])))
    /\ pc' = Propagate(pc)
    /\ UNCHANGED <<df, i, stocks, remoteStocks, remoteTrades, printed, run, pre, arg, ret>>

\* line 88: the second loop is exhausted
Finish ==
    /\ pc = "pass2"
    /\ i > Len(df)
    /\ printed' = TRUE
    /\ pc' = "done"
    /\ UNCHANGED <<df, i, stocks, remoteStocks, remoteTrades, calls, run, pre, arg, ret>>

Next ==
    \/ StockSkip
    \/ StockCacheHit
    \/ StockSelectFail
    \/ StockAdopt
    \/ StockInsert
    \/ StockInsertFail
    \/ EndPass1
    \/ TradeSkip
    \/ TradeDateFail
    \/ TradeInsert
    \/ TradeInsertFail
    \/ Finish

Spec == Init /\ [][Next]_vars

\* The script started again on the same file, against the store the first run left.
Rerun ==
    /\ pc = "done"
    /\ run = "first"
    /\ run' = "second"
    /\ pc' = "pass1"
    /\ i' = 1
    /\ stocks' = <<>>
    /\ printed' = FALSE
    /\ UNCHANGED <<df, remoteStocks, remoteTrades, calls, pre, arg, ret>>

NextRerun == Next \/ Rerun

SpecRerun == Init /\ [][NextRerun]_vars

(* ------------------------------------- split_ticker_exchange on its own *)
Chars == {"A", "B", "."}

SplitInit ==
    /\ arg \in {None} \cup {Some(s) : s \in SeqsUpTo(Chars, MaxLen)}
    /\ ret = <<>>
    /\ pc = "split"
    /\ df = <<>>
    /\ pre = {}
    /\ remoteStocks = {}
    /\ remoteTrades = <<>>
    /\ i = 1
    /\ stocks = <<>>
    /\ calls = <<>>
    /\ printed = FALSE
    /\ run = "first"

SplitCall ==
    /\ pc = "split"
    /\ ret' = split_ticker_exchange(arg)
    /\ pc' = "returned"
    /\ UNCHANGED <<df, i, stocks, remoteStocks, remoteTrades, calls, printed, run, pre, arg>>

SpecSplit == SplitInit /\ [][SplitCall]_vars

(***************************************************************************)
(* Properties                                                              *)
(***************************************************************************)
Events(op) == {j \in 1..Len(calls) : calls[j].op = op}
OkEvents(op) == {j \in Events(op) : calls[j].ok}
Rows == 1..Len(df)

\* the row's ticker splits to the key k
RowHasKey(r, k) ==
    /\ split_ticker_exchange(df[r].Ticker)[1] # None
    /\ Key(split_ticker_exchange(df[r].Ticker)[1], split_ticker_exchange(df[r].Ticker)[2]) = k

RowSkippedInPass1(r) ==
    SkipStock(split_ticker_exchange(df[r].Ticker)[1], nan_to_none(df[r].Holding))

RowSkippedInPass2(r) ==
    SkipTrade(split_ticker_exchange(df[r].Ticker)[1], nan_to_none(df[r].Holding),
              nan_to_none(df[r].Type), nan_to_none(df[r].Date), nan_to_none(df[r].Quantity))

AllFivePresent(r) ==
    /\ df[r].Ticker # None
    /\ df[r].Holding # None
    /\ df[r].Type # None
    /\ df[r].Date # None
    /\ df[r].Quantity # None

MissingTickerOrName(r) == df[r].Ticker = None \/ df[r].Holding = None

TradeEventsOfRow(r) == {j \in OkEvents("insert_trade") : calls[j].row = r}

IsPrefix(s, t) == Len(s) <= Len(t) /\ SubSeq(t, 1, Len(s)) = s

UniqueKeys(table) ==
    \A a, b \in table : (a.ticker = b.ticker /\ a.exchange = b.exchange) => a = b

(* C1: in a run without failure, every row with ticker, name, type, date and
   quantity present gets exactly one insert into `trades`, whose trade_type is the
   uppercased Type and whose trade_date is the day-first date as year-month-day. *)
C1_Claim ==
    pc = "done" =>
        \A r \in Rows :
            AllFivePresent(r) =>
                /\ Cardinality(TradeEventsOfRow(r)) = 1
                /\ \A j \in TradeEventsOfRow(r) :
                      /\ calls[j].data.trade_type = Upper(Val(df[r].Type))
                      /\ calls[j].data.trade_date =
                            <<Val(df[r].Date)[3], Val(df[r].Date)[2], Val(df[r].Date)[1]>>

(* C2: a row whose ticker or name is missing causes no remote call and no change of
   the mapping in pass 1 and no insert into `trades` in pass 2, also when its key is
   in the mapping already. *)
C2_NoCallForRow == \A j \in 1..Len(calls) : ~MissingTickerOrName(calls[j].row)

C2_RowStepIsSilent ==
    (pc \in {"pass1", "pass2"} /\ i <= Len(df) /\ MissingTickerOrName(i)) =>
        /\ stocks' = stocks
        /\ calls' = calls
        /\ remoteStocks' = remoteStocks
        /\ remoteTrades' = remoteTrades
        /\ pc' = pc
        /\ i' = i + 1

C2_Thm == []C2_NoCallForRow /\ [][C2_RowStepIsSilent]_vars

C2_Wit ==
    /\ pc = "pass2"
    /\ \E r \in Rows :
          /\ r < i
          /\ df[r].Holding = None
          /\ \E k \in DOMAIN stocks : RowHasKey(r, k)

(* C3: for every key of a row that passes the ticker/name test, pass 1 issues one
   existence query and at most one insert, the insert only after a query that found
   nothing; all of it for the first such row, later rows of the key issue nothing;
   rows of one key resolve to one identifier. *)
C3_Thm ==
    \A r \in Rows :
        ~RowSkippedInPass1(r) =>
            \A k \in {Key(split_ticker_exchange(df[r].Ticker)[1],
                          split_ticker_exchange(df[r].Ticker)[2])} :
                LET sel == {j \in Events("select") : calls[j].key = k}
                    ins == {j \in Events("insert_stock") : calls[j].key = k}
                    first == CHOOSE q \in Rows :
                                /\ RowHasKey(q, k) /\ ~RowSkippedInPass1(q)
                                /\ \A p \in 1..(q-1) : ~(RowHasKey(p, k) /\ ~RowSkippedInPass1(p))
                IN /\ Cardinality(sel) <= 1
                   /\ Cardinality(ins) <= 1
                   /\ pc \in {"pass2", "done"} => Cardinality(sel) = 1
                   /\ \A j \in sel \cup ins : calls[j].row = first
                   /\ \A j \in ins :
                         /\ j > 1
                         /\ calls[j-1].op = "select"
                         /\ calls[j-1].key = k
                         /\ calls[j-1].ok
                         /\ ~calls[j-1].found
                   /\ \A j \in OkEvents("insert_trade") :
                         calls[j].key = k =>
                            /\ k \in DOMAIN stocks
                            /\ calls[j].data.stock_id = stocks[k]

C3_Wit ==
    /\ pc = "done"
    /\ \E r1, r2 \in Rows :
          /\ r1 < r2
          /\ ~RowSkippedInPass1(r1)
          /\ ~RowSkippedInPass1(r2)
          /\ \E k \in DOMAIN stocks : RowHasKey(r1, k) /\ RowHasKey(r2, k)
          /\ TradeEventsOfRow(r1) # {}
          /\ TradeEventsOfRow(r2) # {}

(* C4: when the `stocks` table starts without two records of one key, it never has
   two records of one key, and every entry of the mapping is the identifier of the
   table's record of that key. *)
C4_Thm ==
    UniqueKeys(pre) =>
        /\ UniqueKeys(remoteStocks)
        /\ \A k \in DOMAIN stocks :
              \E rec \in remoteStocks :
                  /\ <<rec.ticker, rec.exchange>> = k
                  /\ rec.id = stocks[k]

C4_Wit ==
    /\ UniqueKeys(pre)
    /\ pre # {}
    /\ remoteStocks # pre
    /\ Cardinality(DOMAIN stocks) >= 2

(* C5: split_ticker_exchange cuts at the first '.' only: with a '.', the ticker is
   the text before the first '.' and the exchange all the text after it; without a
   '.', the result is the text itself and the empty exchange. *)
C5_Claim ==
    (pc = "returned" /\ arg # None) =>
        IF HasDot(Val(arg))
        THEN ret = << Some(SubSeq(Val(arg), 1, FirstDot(Val(arg)) - 1)),
                      SubSeq(Val(arg), FirstDot(Val(arg)) + 1, Len(Val(arg))) >>
        ELSE ret = <<arg, <<>> >>

(* C6: a second run on the same file against the store the first run left inserts
   nothing into `stocks` and inserts every trade of the first run again, so that
   `trades` ends with twice the records of one run. *)
C6_Thm ==
    /\ \A j \in Events("insert_stock") : calls[j].run = "first"
    /\ \A j \in Events("select") : (calls[j].run = "second" /\ calls[j].ok) => calls[j].found
    /\ (run = "second" /\ pc = "done") =>
          /\ \A r \in Rows :
                Cardinality({j \in TradeEventsOfRow(r) : calls[j].run = "first"})
                  = Cardinality({j \in TradeEventsOfRow(r) : calls[j].run = "second"})
          /\ Len(remoteTrades)
                = 2 * Cardinality({j \in OkEvents("insert_trade") : calls[j].run = "first"})

C6_Wit ==
    /\ run = "second"
    /\ pc = "done"
    /\ Len(remoteTrades) >= 4
    /\ \E j \in OkEvents("insert_stock") : TRUE

(* C7: in pass 2 a row with one of the five fields missing inserts nothing, raises
   nothing and does not end the pass; a later row with all five present still gets
   its trade; a trade is inserted only for rows with all five present. *)
C7_Claim ==
    /\ \A j \in Events("insert_trade") : AllFivePresent(calls[j].row)
    /\ \A j \in Events("to_datetime") : AllFivePresent(calls[j].row)
    /\ pc = "done" =>
          \A r \in Rows :
              ~AllFivePresent(r) =>
                  \A later \in (r+1)..Len(df) :
                      AllFivePresent(later) => Cardinality(TradeEventsOfRow(later)) = 1

(* C8: a failed remote call or date parse is the last thing the run does: nothing
   follows it, the completion message is not printed, and what was inserted before
   stays in the store. *)
C8_FailureIsLast ==
    \A j \in 1..Len(calls) :
        ~calls[j].ok => (j = Len(calls) /\ pc = "aborted" /\ ~printed)

C8_StepKeepsStore ==
    /\ pc # "aborted"
    /\ remoteStocks \subseteq remoteStocks'
    /\ IsPrefix(remoteTrades, remoteTrades')

C8_Thm == []C8_FailureIsLast /\ [][C8_StepKeepsStore]_vars

C8_Wit ==
    /\ pc = "aborted"
    /\ remoteStocks # pre
    /\ Len(remoteTrades) >= 1
    /\ ~printed

(* C9: frame of pass 1 on the `stocks` table: the records present before the run
   stay as they are, and the table gains one record per successful insert, at most
   one per key. *)
C9_Frame ==
    /\ pre \subseteq remoteStocks
    /\ \A j1, j2 \in OkEvents("insert_stock") : calls[j1].key = calls[j2].key => j1 = j2
    /\ Cardinality(remoteStocks \ pre) = Cardinality(OkEvents("insert_stock"))
    /\ {[ticker |-> rec.ticker, exchange |-> rec.exchange, name |-> rec.name,
         currency |-> rec.currency] : rec \in remoteStocks \ pre}
          = {calls[j].data : j \in OkEvents("insert_stock")}

(* C9 as stated: an inserted stock has the name and currency of the first row in
   input order with its key; later rows of the key insert and update nothing;
   records present before the run are never modified or deleted. *)
C9_Claim ==
    /\ C9_Frame
    /\ \A j \in Events("insert_stock") :
          \A r \in Rows :
              (RowHasKey(r, calls[j].key) /\ \A p \in 1..(r-1) : ~RowHasKey(p, calls[j].key)) =>
                  /\ Some(calls[j].data.name) = df[r].Holding
                  /\ calls[j].data.currency = df[r].HoldingCurrency

(* C9 amended: an inserted stock has the name and currency of the first row in input
   order with its key that has a non-empty ticker and name; the rest as stated. *)
C9_Thm ==
    /\ C9_Frame
    /\ \A j \in Events("insert_stock") :
          \A r \in Rows :
              ( /\ RowHasKey(r, calls[j].key)
                /\ ~RowSkippedInPass1(r)
                /\ \A p \in 1..(r-1) : ~(RowHasKey(p, calls[j].key) /\ ~RowSkippedInPass1(p)) ) =>
                  /\ calls[j].row = r
                  /\ Some(calls[j].data.name) = df[r].Holding
                  /\ calls[j].data.currency = df[r].HoldingCurrency

C9_Wit ==
    /\ pc = "done"
    /\ \E j \in OkEvents("insert_stock") :
          \E r \in Rows :
              /\ r > calls[j].row
              /\ RowHasKey(r, calls[j].key)
              /\ ~RowSkippedInPass1(r)
              /\ df[r].Holding # df[calls[j].row].Holding
              /\ df[r].HoldingCurrency # df[calls[j].row].HoldingCurrency

(* C10: every inserted trade refers to a record of `stocks` that is in the table
   when the trade is inserted and whose (ticker, exchange) is the split of the
   row's Ticker; no trade is inserted before pass 1 has ended; in pass 2 the key of
   a row that passes the required-field test is in the mapping. *)
C10_TradesResolve ==
    /\ \A j \in Events("insert_trade") :
          /\ \A q \in Events("select") \cup Events("insert_stock") : q < j
          /\ \E rec \in remoteStocks :
                /\ rec.id = calls[j].data.stock_id
                /\ RowHasKey(calls[j].row, <<rec.ticker, rec.exchange>>)
    /\ (InPass2 /\ ~RowSkippedInPass2(i)) => Key1 \in DOMAIN stocks

C10_InsertStep ==
    Len(remoteTrades') > Len(remoteTrades) =>
        /\ pc = "pass2"
        /\ \E rec \in remoteStocks :
              /\ rec.id = remoteTrades'[Len(remoteTrades')].stock_id
              /\ RowHasKey(i, <<rec.ticker, rec.exchange>>)

C10_Thm == []C10_TradesResolve /\ [][C10_InsertStep]_vars

C10_Wit ==
    /\ pc = "done"
    /\ \E a, b \in 1..Len(remoteTrades) : remoteTrades[a].stock_id # remoteTrades[b].stock_id

====
